---- MODULE Spec2Model ----
(***************************************************************************)
(* A model of HP206955/MC-report: the Monte Carlo throughput resampler     *)
(* (monte_carlo/monte_carlo_simulation.py), the per-team forecast run      *)
(* (monte_carlo/forecasted_throughput.py) and the sprint summary           *)
(* (jira_connector/get_sprint_data.py).                                    *)
(*                                                                         *)
(* Percentiles are kept as exact integers scaled by 100 (Pct100), so that  *)
(* numpy's linear interpolation between order statistics is computed, not  *)
(* rounded away.  None stands for Python's None / pandas' NaN.  A Python   *)
(* exception that nothing catches ends the run in the state "raised".      *)
(***************************************************************************)
EXTENDS Integers, Sequences, FiniteSets, TLC

VARIABLES
    \* ---- monte_carlo_simulation.simulates ----
    historical_throughput,  \* the history: simulates' argument, process_team_forecast's local
    forecast_days,          \* horizon d
    simulations,            \* trials T
    all_forecasts,          \* totals of the finished trials
    daily_forecast,         \* draws of the trial in progress
    results,                \* None, or the dict simulates returns (values * 100)
    sim_pc,                 \* "idle" | "draw" | "returned" | "raised"
    \* ---- forecasted_throughput.get_raw_forecasted_throughput ----
    in_groups,              \* whether throughput.csv has rows of the team at hand
    release_cadences,       \* release_cadences.csv: rows, in file order
    today,                  \* datetime.date.today()
    relevant_range,         \* number of most recent rows used as the history
    team_idx,               \* position of the loop over TEAM_RELEASE_CADENCE
    forecast,               \* the rows appended so far
    fc_pc,                  \* "idle" | "loop" | "returned" | "raised"
    \* ---- get_sprint_data.get ----
    sp_pc,                  \* "idle" | "apply" | "groups" | "rows" | "classified"
                            \* | "skipped" | "done" | "raised"
    sprint_idx,             \* position of the loop over the sprint groups
    issue,                  \* the row at hand (x of the apply, issue of itertuples)
    seen,                   \* ID and Story_Points of the rows of the group read so far
    initial_issues,
    added_issues,
    removed_issues,
    sprint_data,            \* the summary dict of the sprint at hand
    by_ticket_counts,       \* the "Sprint" column of the summaries appended so far
    \* ---- get_historical_data.fetch_jira_issues ----
    max_fetch,              \* 0 stands for None
    all_issues,             \* len(all_issues): the issues are opaque
    requests,               \* number of calls of enhanced_search_issues so far
    ft_pc,                  \* "idle" | "loop" | "break" | "returned"
    \* ---- get_sprint_data.extract_sprint_ids, one call ----
    windows,                \* the argument sprint_dict
    sprints_json,           \* the ids of the argument sprints_json
    change_log_json,        \* the argument change_log_json, as a Change_Log
    sprint_ids,             \* the set returned
    ex_pc,                  \* "idle" | "call" | "returned" | "raised"
    \* ---- forecasted_throughput.get_release_info, one call ----
    team_name,              \* the argument team_name
    days_until_release,     \* the second value returned
    rel_pc                  \* "idle" | "call" | "returned"

simVars == <<historical_throughput, forecast_days, simulations, all_forecasts,
             daily_forecast, results, sim_pc>>
fcVars == <<in_groups, release_cadences, today, relevant_range, team_idx,
            forecast, fc_pc>>

spVars == <<sp_pc, sprint_idx, issue, seen, initial_issues, added_issues,
            removed_issues, sprint_data, by_ticket_counts>>

ftVars == <<max_fetch, all_issues, requests, ft_pc>>

exVars == <<windows, sprints_json, change_log_json, sprint_ids, ex_pc>>

relVars == <<team_name, days_until_release, rel_pc>>

vars == <<simVars, fcVars, spVars, ftVars, exVars, relVars>>

None == "None"

\* ------------------------------------------------------------------ bounds
MaxLen == 2        \* longest history
MaxVal == 1        \* largest daily throughput value
MaxDays == 2       \* largest forecast horizon stepped draw by draw
MaxTrials == 2     \* largest number of simulations
MaxDate == 2       \* days are 0..MaxDate
MaxTeamRows == 2   \* most throughput rows of one team
MaxRows == 2       \* most rows of one sprint group
MaxHist == 2       \* most change-history items of one issue
MaxFetch == 3      \* largest max_fetch
MaxRequests == 3   \* most pages asked of the server
MaxPeriods == 3    \* most rows of release_cadences.csv in one call

\* ------------------------------------------------------------- helpers
\* (mutation) sum(daily_forecast[1:]): the first draw of a trial is not counted.
RECURSIVE SumSeq_SkipFirst(_)
SumSeq_SkipFirst(s) ==
    IF Len(s) <= 1 THEN 0 ELSE s[2] + SumSeq_SkipFirst(Tail(s))

\* sum(daily_forecast)
RECURSIVE SumSeq(_)
SumSeq(s) == IF s = <<>> THEN 0 ELSE Head(s) + SumSeq(Tail(s))

MinOf(S) == CHOOSE x \in S : \A y \in S : x <= y
MaxOf(S) == CHOOSE x \in S : \A y \in S : x >= y
Range(s) == {s[i] : i \in DOMAIN s}

RECURSIVE Insert(_, _)
Insert(x, s) ==
    IF s = <<>> THEN <<x>>
    ELSE IF x <= Head(s) THEN <<x>> \o s
    ELSE <<Head(s)>> \o Insert(x, Tail(s))

RECURSIVE SortAsc(_)
SortAsc(s) == IF s = <<>> THEN <<>> ELSE Insert(Head(s), SortAsc(Tail(s)))

\* np.percentile(a, q) with the default linear interpolation, times 100:
\* the virtual index is q/100 * (n-1); the value is interpolated between the
\* two order statistics around it.
Pct100(a, q) ==
    LET s == SortAsc(a)
        n == Len(s)
        lo == ((n - 1) * q) \div 100
        fr == ((n - 1) * q) % 100
        hi == IF lo + 2 <= n THEN lo + 2 ELSE n
    IN  100 * s[lo + 1] + (s[hi] - s[lo + 1]) * fr

\* (mutation) the percentiles named by the keys instead of their complements.
PercentileResults_Upper(a) == [_70_pt |-> Pct100(a, 70), _85_pt |-> Pct100(a, 85)]

\* the dict simulates returns
PercentileResults(a) == [_70_pt |-> Pct100(a, 30), _85_pt |-> Pct100(a, 15)]

Histories == UNION {[1..n -> 0..MaxVal] : n \in 0..MaxLen}

\* --------------------------------------------------- idle subsystems
FcIdle ==
    /\ in_groups = FALSE
    /\ release_cadences = <<>>
    /\ today = 0
    /\ relevant_range = 0
    /\ team_idx = 0
    /\ forecast = <<>>
    /\ fc_pc = "idle"

\* No row at hand.  Story_Points is <<>> for NaN and <<n>> for the number n.
NoIssue ==
    [ID |-> 0, Current_Status_Category |-> "", Story_Points |-> <<>>, Backlog |-> 0,
     Sprints_JSON |-> {}, Change_Log |-> <<>>]
NoSprintData ==
    [Sprint |-> "", Initial |-> 0, Added |-> 0, Removed |-> 0, Blocked |-> 0,
     Initial_Points |-> 0, Added_Points |-> 0, Removed_Points |-> 0,
     Blocked_Points |-> 0]

SpIdle ==
    /\ sp_pc = "idle"
    /\ sprint_idx = 0
    /\ issue = NoIssue
    /\ seen = <<>>
    /\ initial_issues = {}
    /\ added_issues = {}
    /\ removed_issues = {}
    /\ sprint_data = NoSprintData
    /\ by_ticket_counts = <<>>

FtIdle ==
    /\ max_fetch = 0
    /\ all_issues = 0
    /\ requests = 0
    /\ ft_pc = "idle"

ExIdle ==
    /\ windows = <<>>
    /\ sprints_json = {}
    /\ change_log_json = <<>>
    /\ sprint_ids = {}
    /\ ex_pc = "idle"

RelIdle ==
    /\ team_name = ""
    /\ days_until_release = 0
    /\ rel_pc = "idle"

\* ---------------------------------------------------------- simulates
\* (mutation) range(forecast_days + 1): one draw too many per trial.
TrialDone_OneExtra == Len(daily_forecast) = forecast_days + 1

\* the inner loop "for _ in range(forecast_days)" has run out
TrialDone == Len(daily_forecast) = forecast_days

\* Number of positions of s that hold v.
Occurrences(s, v) == Cardinality({i \in DOMAIN s : s[i] = v})

\* (mutation) a draw without replacement: an element is drawn at most as
\* often as it occurs in the history.
Draw_WithoutReplacement ==
    /\ sim_pc = "draw"
    /\ Len(all_forecasts) < simulations
    /\ ~TrialDone
    /\ IF historical_throughput = <<>>
       THEN /\ sim_pc' = "raised"
            /\ UNCHANGED daily_forecast
       ELSE /\ \E i \in DOMAIN historical_throughput :
                 /\ Occurrences(daily_forecast, historical_throughput[i])
                        < Occurrences(historical_throughput, historical_throughput[i])
                 /\ daily_forecast' = Append(daily_forecast, historical_throughput[i])
            /\ UNCHANGED sim_pc
    /\ UNCHANGED <<historical_throughput, forecast_days, simulations,
                   all_forecasts, results>>
    /\ UNCHANGED <<fcVars, spVars, ftVars, exVars, relVars>>

\* random.choice(historical_throughput): any element; IndexError on an empty list.
Draw ==
    /\ sim_pc = "draw"
    /\ Len(all_forecasts) < simulations
    /\ ~TrialDone
    /\ IF historical_throughput = <<>>
       THEN /\ sim_pc' = "raised"
            /\ UNCHANGED daily_forecast
       ELSE /\ \E i \in DOMAIN historical_throughput :
                 daily_forecast' = Append(daily_forecast, historical_throughput[i])
            /\ UNCHANGED sim_pc
    /\ UNCHANGED <<historical_throughput, forecast_days, simulations,
                   all_forecasts, results>>
    /\ UNCHANGED <<fcVars, spVars, ftVars, exVars, relVars>>

\* total_throughput = sum(daily_forecast); all_forecasts.append(total_throughput)
EndTrial ==
    /\ sim_pc = "draw"
    /\ Len(all_forecasts) < simulations
    /\ TrialDone
    /\ all_forecasts' = Append(all_forecasts, SumSeq(daily_forecast))
    /\ daily_forecast' = <<>>
    /\ UNCHANGED <<historical_throughput, forecast_days, simulations, results, sim_pc>>
    /\ UNCHANGED <<fcVars, spVars, ftVars, exVars, relVars>>

\* results = {"_70_pt": np.percentile(.., 30), "_85_pt": np.percentile(.., 15)}
Percentiles ==
    /\ sim_pc = "draw"
    /\ Len(all_forecasts) = simulations
    /\ results' = PercentileResults(all_forecasts)
    /\ sim_pc' = "returned"
    /\ UNCHANGED <<historical_throughput, forecast_days, simulations,
                   all_forecasts, daily_forecast>>
    /\ UNCHANGED <<fcVars, spVars, ftVars, exVars, relVars>>

SimInit ==
    /\ FcIdle
    /\ SpIdle
    /\ FtIdle
    /\ ExIdle
    /\ RelIdle
    /\ historical_throughput \in Histories
    /\ forecast_days \in 0..MaxDays
    /\ simulations \in 1..MaxTrials
    /\ all_forecasts = <<>>
    /\ daily_forecast = <<>>
    /\ results = None
    /\ sim_pc = "draw"

SimNext == Draw \/ EndTrial \/ Percentiles

SpecSim == SimInit /\ [][SimNext]_vars

\* ------------------------------------------- simulates, as one call
\* The totals one trial can produce: sums of d draws from h.
RECURSIVE TrialTotals(_, _)
TrialTotals(h, d) ==
    IF d = 0 THEN {0}
    ELSE {t + x : t \in TrialTotals(h, d - 1), x \in Range(h)}

\* random.choice raises IndexError on an empty list: the first draw of the
\* first trial fails.
SimulatesRaises(h, d, T) == h = <<>> /\ d >= 1 /\ T >= 1

\* Every dict simulates(h, forecast_days=d, simulations=T) can return.
SimulatesOutcomes(h, d, T) ==
    {PercentileResults(a) : a \in [1..T -> TrialTotals(h, d)]}

\* int(x) of a non-negative percentile kept times 100
ToInt(x100) == x100 \div 100

\* ------------------------------------------ forecasted_throughput.py
\* Two of the thirteen entries of TEAM_RELEASE_CADENCE, one of each cadence,
\* in the order of the dict.
Teams == <<"Integrations API", "Integrations Platform">>
TEAM_RELEASE_CADENCE ==
    [t \in Range(Teams) |-> IF t = "Integrations API" THEN 0 ELSE 1]

Dates == 0..MaxDate
Cadences == {"Weekly", "Biweekly"}
Abs(x) == IF x < 0 THEN -x ELSE x

\* release_cadences.csv: two rows, one per cadence class, in either order.
ReleaseTables ==
    {t \in [1..2 -> [cadence : Cadences, release_date : Dates]] :
        {t[i].cadence : i \in 1..2} = Cadences}

\* The rows of one team in throughput.csv, with distinct days.
TeamGroups ==
    {g \in UNION {[1..n -> [date_day : Dates, throughput : 0..MaxVal]] :
                      n \in 1..MaxTeamRows} :
        \A i, j \in DOMAIN g : i # j => g[i].date_day # g[j].date_day}

\* periods.first().loc[cadence, "release_date"]: the first row of the class
FirstOfCadence(table, c) ==
    table[MinOf({i \in DOMAIN table : table[i].cadence = c})].release_date

\* get_release_info: days_until_release = abs(release_date - today).days
DaysUntilRelease(team) ==
    LET cadence == IF TEAM_RELEASE_CADENCE[team] # 0 THEN "Biweekly" ELSE "Weekly"
    IN  Abs(FirstOfCadence(release_cadences, cadence) - today)

\* .sort_values(by="date_day", ascending=False)
RECURSIVE InsertDesc(_, _)
InsertDesc(r, s) ==
    IF s = <<>> THEN <<r>>
    ELSE IF r.date_day >= Head(s).date_day THEN <<r>> \o s
    ELSE <<Head(s)>> \o InsertDesc(r, Tail(s))

RECURSIVE SortDesc(_)
SortDesc(s) == IF s = <<>> THEN <<>> ELSE InsertDesc(Head(s), SortDesc(Tail(s)))

\* group["throughput"].tolist()[:relevant_range]
HistoryOf(g, rr) ==
    LET sorted == SortDesc(g)
        n == IF rr < Len(sorted) THEN rr ELSE Len(sorted)
    IN  [i \in 1..n |-> sorted[i].throughput]

ForecastRow(team, f85, f70, days, cur) ==
    [team_name |-> team, _85_pt |-> f85, _70_pt |-> f70,
     days_until_release |-> days, current_period_forecast |-> cur]

\* The histories process_team_forecast can cut out of the rows of one team.
TeamHistories(rr) == {HistoryOf(g, rr) : g \in TeamGroups}

\* The rows process_team_forecast can return for a team that has rows, when
\* neither call of simulates raises.
TeamRows(team, h, days, T) ==
    LET next == 7 * (TEAM_RELEASE_CADENCE[team] + 1)
    IN  {ForecastRow(team, ToInt(fut._85_pt), ToInt(fut._70_pt), days,
                     ToInt(cur._85_pt)) :
            cur \in SimulatesOutcomes(h, days, T),
            fut \in SimulatesOutcomes(h, next, T)}

\* One iteration of the loop of get_raw_forecasted_throughput, for a team
\* without rows in throughput.csv: process_team_forecast returns the zero row.
ProcessMissingTeam ==
    /\ fc_pc = "loop"
    /\ team_idx <= Len(Teams)
    /\ in_groups' = FALSE
    /\ forecast' = Append(forecast,
            ForecastRow(Teams[team_idx], 0, 0, DaysUntilRelease(Teams[team_idx]), 0))
    /\ team_idx' = team_idx + 1
    /\ UNCHANGED <<release_cadences, today, relevant_range, fc_pc>>
    /\ UNCHANGED <<simVars, spVars, ftVars, exVars, relVars>>

\* One iteration of the loop for a team with rows: get_release_info, then
\* process_team_forecast (two calls of simulates), then forecast.append.
\* Nothing catches the IndexError of simulates, so it ends the run.
ProcessTeam ==
    /\ fc_pc = "loop"
    /\ team_idx <= Len(Teams)
    /\ in_groups' = TRUE
    /\ LET team == Teams[team_idx]
           days == DaysUntilRelease(team)
           next == 7 * (TEAM_RELEASE_CADENCE[team] + 1)
       IN  \E h \in TeamHistories(relevant_range) :
             /\ historical_throughput' = h
             /\ IF \/ SimulatesRaises(h, days, simulations)
                   \/ SimulatesRaises(h, next, simulations)
                THEN /\ fc_pc' = "raised"
                     /\ UNCHANGED <<forecast, team_idx>>
                ELSE /\ \E row \in TeamRows(team, h, days, simulations) :
                           forecast' = Append(forecast, row)
                     /\ team_idx' = team_idx + 1
                     /\ UNCHANGED fc_pc
    /\ UNCHANGED <<release_cadences, today, relevant_range>>
    /\ UNCHANGED <<forecast_days, simulations, all_forecasts, daily_forecast,
                   results, sim_pc>>
    /\ UNCHANGED <<spVars, ftVars, exVars, relVars>>

\* return forecast
ReturnForecast ==
    /\ fc_pc = "loop"
    /\ team_idx > Len(Teams)
    /\ fc_pc' = "returned"
    /\ UNCHANGED <<in_groups, release_cadences, today, relevant_range, team_idx, forecast>>
    /\ UNCHANGED <<simVars, spVars, ftVars, exVars, relVars>>

SimIdle(T) ==
    /\ historical_throughput = <<>>
    /\ forecast_days = 0
    /\ simulations = T
    /\ all_forecasts = <<>>
    /\ daily_forecast = <<>>
    /\ results = None
    /\ sim_pc = "idle"

FcInit ==
    /\ \E T \in 1..MaxTrials : SimIdle(T)
    /\ SpIdle
    /\ FtIdle
    /\ ExIdle
    /\ RelIdle
    /\ in_groups = FALSE
    /\ release_cadences \in ReleaseTables
    /\ today \in Dates
    /\ relevant_range \in 0..MaxTeamRows
    /\ team_idx = 1
    /\ forecast = <<>>
    /\ fc_pc = "loop"

FcNext == ProcessMissingTeam \/ ProcessTeam \/ ReturnForecast

SpecForecast == FcInit /\ [][FcNext]_vars

\* ------------------------------------------------- get_release_info
\* release_cadences.csv with several rows per cadence class, in any order;
\* each class has a row.
ReleasePeriods ==
    {t \in UNION {[1..n -> [cadence : Cadences, release_date : Dates]] :
                      n \in 2..MaxPeriods} :
        {t[i].cadence : i \in DOMAIN t} = Cadences}

\* One call of get_release_info (lines 23-34).
GetReleaseInfo ==
    /\ rel_pc = "call"
    /\ days_until_release' = DaysUntilRelease(team_name)
    /\ rel_pc' = "returned"
    /\ UNCHANGED team_name
    /\ UNCHANGED <<simVars, fcVars, spVars, ftVars, exVars>>

RelInit ==
    /\ SimIdle(1)
    /\ SpIdle
    /\ FtIdle
    /\ ExIdle
    /\ in_groups = FALSE
    /\ release_cadences \in ReleasePeriods
    /\ today \in Dates
    /\ relevant_range = 0
    /\ team_idx = 0
    /\ forecast = <<>>
    /\ fc_pc = "idle"
    /\ team_name \in Range(Teams)
    /\ days_until_release = 0
    /\ rel_pc = "call"

RelNext == GetReleaseInfo

SpecRelease == RelInit /\ [][RelNext]_vars

\* --------------------------------------------------------------- claim C14
\* The release dates of the cadence class of the team that are not past.
ClassOf(team) == IF TEAM_RELEASE_CADENCE[team] # 0 THEN "Biweekly" ELSE "Weekly"
UpcomingReleases(team) ==
    {release_cadences[i].release_date : i \in
        {j \in DOMAIN release_cadences :
            /\ release_cadences[j].cadence = ClassOf(team)
            /\ release_cadences[j].release_date >= today}}

\* C14: days_until_release is the distance from today to the nearest
\* upcoming release date of the team's cadence class, whatever the order of
\* the rows of the table.
C14_NearestUpcomingRelease ==
    (rel_pc = "returned" /\ UpcomingReleases(team_name) # {}) =>
        days_until_release = MinOf(UpcomingReleases(team_name)) - today

\* ------------------------------------------------- get_sprint_data.py
\* sprint_dict after lines 98-110: every sprint of the board and of the
\* Sprints_JSON column, with its name and its window.
SprintKeys == <<"101", "102">>
sprint_dict ==
    [k \in Range(SprintKeys) |->
        IF k = "101"
        THEN [sprint_name |-> "Sprint A", start_date |-> 1, end_date |-> MaxDate]
        ELSE [sprint_name |-> "Sprint B", start_date |-> 2, end_date |-> MaxDate]]

\* A change-history item.  A Sprint item has field "Sprint", fieldtype
\* "custom", fieldId "customfield_10005", the sprint ids in "from"/"to" and the
\* names of the same sprints in "fromString"/"toString"; the model keeps the
\* ids and looks the names up.  "other" is a well-formed item of another
\* field.  "no_field" lacks the key "field", "no_fieldtype" the key "fieldtype".
SprintSets == SUBSET Range(SprintKeys)
SprintItems ==
    {i \in [kind : {"Sprint"}, from : SprintSets, to : SprintSets] : i.from # i.to}
PlainItems ==
    {[kind |-> k, from |-> {}, to |-> {}] : k \in {"other", "no_field", "no_fieldtype"}}
Items == SprintItems \cup PlainItems

\* Change_Log: the items of the histories in file order, each with the
\* "created" day of its history, oldest first.  (The loops over histories and
\* items visit the items in this order, and every break leaves both loops: a
\* history of several items behaves as several histories of one day.)
ChangeLogs ==
    {c \in UNION {[1..n -> [created : Dates, item : Items]] : n \in 0..MaxHist} :
        \A i \in DOMAIN c : i > 1 => c[i - 1].created <= c[i].created}

StatusCategories == {"Blocked", "Done"}
PointValues == {<<>>, <<1>>}

\* The rows of filtered_df.  Backlog is the day the issue was created
\* (get_historical_data.py line 44), so no history is older than it.
IssueRows ==
    {r \in [ID : 1..MaxRows, Current_Status_Category : StatusCategories,
            Story_Points : PointValues, Backlog : Dates, Sprints_JSON : SprintSets,
            Change_Log : ChangeLogs] :
        \A i \in DOMAIN r.Change_Log : r.Backlog <= r.Change_Log[i].created}

\* set(item["toString"].split(", ")) and set(item["fromString"].split(", "))
NamesOf(ids) == {sprint_dict[k].sprint_name : k \in ids}

\* extract_sprint_ids raises KeyError at item["fieldtype"], outside its try.
ExtractRaises(row) ==
    \E i \in DOMAIN row.Change_Log : row.Change_Log[i].item.kind = "no_fieldtype"

\* extract_sprint_ids: the ids of Sprints_JSON, the ids on the "to" side of a
\* Sprint item dated within [start, end], the ids on its "from" side dated
\* within (start, end].
extract_sprint_ids(row) ==
    row.Sprints_JSON
    \cup {k \in Range(SprintKeys) :
            \E i \in DOMAIN row.Change_Log :
                LET h == row.Change_Log[i]
                IN  /\ h.item.kind = "Sprint"
                    /\ \/ /\ k \in h.item.to
                          /\ sprint_dict[k].start_date <= h.created
                          /\ h.created <= sprint_dict[k].end_date
                       \/ /\ k \in h.item.from
                          /\ sprint_dict[k].start_date < h.created
                          /\ h.created <= sprint_dict[k].end_date}

\* The rows of the group of sprint k after explode and groupby("Sprints").
GroupRows(k) ==
    {r \in IssueRows : ~ExtractRaises(r) /\ k \in extract_sprint_ids(r)}

\* (mutation) the two branches of the creation-date fallback exchanged.
CreationFallback_Swapped(row, k, sets) ==
    IF row.Backlog < sprint_dict[k].start_date
    THEN [sets EXCEPT !.added = @ \cup {row.ID}]
    ELSE [sets EXCEPT !.initial = @ \cup {row.ID}]

\* The else of the for (lines 237-247), reached when no item had the field
\* "Sprint".  Its guard "issue not in added_issues and issue not in
\* initial_issues" looks the row tuple up in sets of ids, so it is true.
CreationFallback(row, k, sets) ==
    IF row.Backlog < sprint_dict[k].start_date
    THEN [sets EXCEPT !.initial = @ \cup {row.ID}]
    ELSE [sets EXCEPT !.added = @ \cup {row.ID}]

\* The body of "for history ... for item ..." from item i on, for one row of
\* the group of sprint k: the three sets afterwards, and whether a KeyError
\* left the loop.  The first item whose field is "Sprint" ends the scan
\* (lines 222-223 and 233-236); the else of the for runs when no item did.
RECURSIVE ScanHistory(_, _, _, _)
ScanHistory(row, k, i, sets) ==
    LET name == sprint_dict[k].sprint_name
        start == sprint_dict[k].start_date
    IN  IF i > Len(row.Change_Log)
        THEN CreationFallback(row, k, sets)
        ELSE LET h == row.Change_Log[i]
                 sprint_added == NamesOf(h.item.to) \ NamesOf(h.item.from)
                 sprint_removed == NamesOf(h.item.from) \ NamesOf(h.item.to)
             IN  IF h.item.kind = "no_field"
                 THEN [sets EXCEPT !.key_error = TRUE]
                 ELSE IF h.item.kind # "Sprint"
                 THEN ScanHistory(row, k, i + 1, sets)
                 ELSE IF name \in sprint_added
                 THEN IF h.created <= start
                      THEN IF row.ID \notin sets.added
                           THEN [sets EXCEPT !.initial = @ \cup {row.ID}]
                           ELSE sets
                      ELSE IF row.ID \notin sets.initial
                           THEN [sets EXCEPT !.added = @ \cup {row.ID}]
                           ELSE sets
                 ELSE IF name \in sprint_removed /\ h.created >= start
                      THEN [sets EXCEPT !.removed = @ \cup {row.ID}]
                      ELSE sets

\* issue.Story_Points if pd.notnull(issue.Story_Points) else 0
PointsOrZero(p) == IF p = <<>> THEN 0 ELSE p[1]

\* sum(issue.Story_Points for issue in group.itertuples() if issue.ID in ids
\*     and pd.notnull(issue.Story_Points))
RECURSIVE PointsOf(_, _)
PointsOf(rows, ids) ==
    IF rows = <<>> THEN 0
    ELSE (IF Head(rows).ID \in ids THEN PointsOrZero(Head(rows).Story_Points) ELSE 0)
         + PointsOf(Tail(rows), ids)

\* The apply of extract_sprint_ids over the rows (lines 151-159) raises for a
\* row with an item without "fieldtype": nothing catches it.
ApplyRaises ==
    /\ sp_pc = "apply"
    /\ \E r \in IssueRows :
          /\ ExtractRaises(r)
          /\ issue' = r
    /\ sp_pc' = "raised"
    /\ UNCHANGED <<sprint_idx, seen, initial_issues, added_issues, removed_issues,
                   sprint_data, by_ticket_counts>>
    /\ UNCHANGED <<simVars, fcVars, ftVars, exVars, relVars>>

\* The apply went through every row; groupby("Sprints") follows.
ApplyDone ==
    /\ sp_pc = "apply"
    /\ sp_pc' = "groups"
    /\ UNCHANGED <<sprint_idx, issue, seen, initial_issues, added_issues,
                   removed_issues, sprint_data, by_ticket_counts>>
    /\ UNCHANGED <<simVars, fcVars, ftVars, exVars, relVars>>

\* "for sprint, group in issue_by_sprints": the next group, in key order
\* (a sprint without rows has no group); lines 184-198.
StartSprint ==
    /\ sp_pc \in {"groups", "skipped"}
    /\ \E j \in (sprint_idx + 1)..Len(SprintKeys) :
          /\ sprint_idx' = j
          /\ sprint_data' =
                [NoSprintData EXCEPT !.Sprint = sprint_dict[SprintKeys[j]].sprint_name]
    /\ initial_issues' = {}
    /\ added_issues' = {}
    /\ removed_issues' = {}
    /\ seen' = <<>>
    /\ issue' = NoIssue
    /\ sp_pc' = "rows"
    /\ UNCHANGED by_ticket_counts
    /\ UNCHANGED <<simVars, fcVars, ftVars, exVars, relVars>>

\* One iteration of "for issue in group.itertuples()": lines 199-247.  The
\* KeyError of a malformed item leaves the loop for the handler of line 275.
ProcessIssue ==
    /\ sp_pc = "rows"
    /\ Len(seen) < MaxRows
    /\ \E r \in GroupRows(SprintKeys[sprint_idx]) :
          \* issue keys are opaque: a group's keys are numbered as they appear
          /\ r.ID <= Len(seen) + 1
          /\ issue' = r
          /\ seen' = Append(seen, [ID |-> r.ID, Story_Points |-> r.Story_Points])
          /\ sprint_data' =
                IF r.Current_Status_Category = "Blocked"
                THEN [sprint_data EXCEPT
                        !.Blocked = @ + 1,
                        !.Blocked_Points = @ + PointsOrZero(r.Story_Points)]
                ELSE sprint_data
          /\ LET before == [initial |-> initial_issues, added |-> added_issues,
                            removed |-> removed_issues, key_error |-> FALSE]
                 after == ScanHistory(r, SprintKeys[sprint_idx], 1, before)
             IN  /\ initial_issues' = after.initial
                 /\ added_issues' = after.added
                 /\ removed_issues' = after.removed
                 /\ sp_pc' = IF after.key_error THEN "skipped" ELSE "classified"
    /\ UNCHANGED <<sprint_idx, by_ticket_counts>>
    /\ UNCHANGED <<simVars, fcVars, ftVars, exVars, relVars>>

\* Back at the head of "for issue in group.itertuples()": the loop variable
\* is assigned anew before it is read again.
NextIssue ==
    /\ sp_pc = "classified"
    /\ issue' = NoIssue
    /\ sp_pc' = "rows"
    /\ UNCHANGED <<sprint_idx, seen, initial_issues, added_issues, removed_issues,
                   sprint_data, by_ticket_counts>>
    /\ UNCHANGED <<simVars, fcVars, ftVars, exVars, relVars>>

\* The group is exhausted: lines 248-274, the counts, the point sums and
\* by_ticket_counts.append(sprint_data).
FinishSprint ==
    /\ sp_pc = "rows"
    /\ seen # <<>>
    /\ sprint_data' =
          [sprint_data EXCEPT
             !.Initial = Cardinality(initial_issues),
             !.Initial_Points = PointsOf(seen, initial_issues),
             !.Added = Cardinality(added_issues),
             !.Added_Points = PointsOf(seen, added_issues),
             !.Removed = Cardinality(removed_issues),
             !.Removed_Points = PointsOf(seen, removed_issues)]
    /\ by_ticket_counts' = Append(by_ticket_counts, sprint_data.Sprint)
    /\ sp_pc' = "groups"
    /\ UNCHANGED <<sprint_idx, issue, seen, initial_issues, added_issues,
                   removed_issues>>
    /\ UNCHANGED <<simVars, fcVars, ftVars, exVars, relVars>>

\* No group is left: by_ticket_counts is written out (line 278).
WriteCounts ==
    /\ sp_pc \in {"groups", "skipped"}
    /\ sp_pc' = "done"
    /\ UNCHANGED <<sprint_idx, issue, seen, initial_issues, added_issues,
                   removed_issues, sprint_data, by_ticket_counts>>
    /\ UNCHANGED <<simVars, fcVars, ftVars, exVars, relVars>>

SpInit ==
    /\ SimIdle(1)
    /\ FcIdle
    /\ FtIdle
    /\ ExIdle
    /\ RelIdle
    /\ sp_pc = "apply"
    /\ sprint_idx = 0
    /\ issue = NoIssue
    /\ seen = <<>>
    /\ initial_issues = {}
    /\ added_issues = {}
    /\ removed_issues = {}
    /\ sprint_data = NoSprintData
    /\ by_ticket_counts = <<>>

SpNext ==
    \/ ApplyRaises \/ ApplyDone \/ StartSprint \/ ProcessIssue \/ NextIssue
    \/ FinishSprint \/ WriteCounts

SpecSprint == SpInit /\ [][SpNext]_vars

\* ------------------------------- get_sprint_data.extract_sprint_ids
\* _to_dt gives None for a sprint without startDate or endDate.
NoDate == -1

\* The entries one sprint can have in the argument sprint_dict.
DateWindows ==
    {w \in [sprint_name : {"Sprint A"}, start_date : Dates \cup {NoDate},
            end_date : Dates \cup {NoDate}] :
        (w.start_date # NoDate /\ w.end_date # NoDate) => w.start_date <= w.end_date}

\* The argument sprint_dict: sprint 102 as in sprint_dict, sprint 101 with
\* any window or absent from the table.
WindowTables ==
    {[k \in {"102"} |-> sprint_dict[k]]}
    \cup {[k \in Range(SprintKeys) |-> IF k = "101" THEN w ELSE sprint_dict[k]] :
            w \in DateWindows}

\* The "to" loop for one id (lines 127-137):
\* start_date <= created <= end_date inside try / except KeyError.
\* "skip": the id is not a key; "TypeError": a comparison with None.
ToSide(table, k, created) ==
    IF k \notin DOMAIN table THEN "skip"
    ELSE IF table[k].start_date = NoDate THEN "TypeError"
    ELSE IF ~(table[k].start_date <= created) THEN "out"
    ELSE IF table[k].end_date = NoDate THEN "TypeError"
    ELSE IF created <= table[k].end_date THEN "in" ELSE "out"

\* The "from" loop for one id (lines 138-148): start_date < created <= end_date.
FromSide(table, k, created) ==
    IF k \notin DOMAIN table THEN "skip"
    ELSE IF table[k].start_date = NoDate THEN "TypeError"
    ELSE IF ~(table[k].start_date < created) THEN "out"
    ELSE IF table[k].end_date = NoDate THEN "TypeError"
    ELSE IF created <= table[k].end_date THEN "in" ELSE "out"

\* The exception that leaves extract_sprint_ids, or "none": the KeyError of
\* item["fieldtype"], or the TypeError of a comparison with a None date.
ExtractException(table, log) ==
    IF \E i \in DOMAIN log : log[i].item.kind = "no_fieldtype" THEN "KeyError"
    ELSE IF \E i \in DOMAIN log :
               /\ log[i].item.kind = "Sprint"
               /\ \/ \E k \in log[i].item.to :
                        ToSide(table, k, log[i].created) = "TypeError"
                  \/ \E k \in log[i].item.from :
                        FromSide(table, k, log[i].created) = "TypeError"
         THEN "TypeError"
    ELSE "none"

\* The set extract_sprint_ids returns when nothing is raised.
ExtractedIds(table, json, log) ==
    json
    \cup {k \in Range(SprintKeys) :
            \E i \in DOMAIN log :
                /\ log[i].item.kind = "Sprint"
                /\ \/ k \in log[i].item.to /\ ToSide(table, k, log[i].created) = "in"
                   \/ k \in log[i].item.from
                      /\ FromSide(table, k, log[i].created) = "in"}

\* One call of extract_sprint_ids (lines 112-149).
ExtractCall ==
    /\ ex_pc = "call"
    /\ IF ExtractException(windows, change_log_json) # "none"
       THEN /\ ex_pc' = "raised"
            /\ UNCHANGED sprint_ids
       ELSE /\ ex_pc' = "returned"
            /\ sprint_ids' = ExtractedIds(windows, sprints_json, change_log_json)
    /\ UNCHANGED <<windows, sprints_json, change_log_json>>
    /\ UNCHANGED <<simVars, fcVars, spVars, ftVars, relVars>>

\* The arguments of the call: the ids of Sprints_JSON are keys of the table
\* (get() adds them, lines 98-108).
ExInit ==
    /\ SimIdle(1)
    /\ FcIdle
    /\ SpIdle
    /\ FtIdle
    /\ RelIdle
    /\ windows \in WindowTables
    /\ sprints_json \in SUBSET DOMAIN windows
    /\ change_log_json \in ChangeLogs
    /\ sprint_ids = {}
    /\ ex_pc = "call"

ExNext == ExtractCall

SpecExtract == ExInit /\ [][ExNext]_vars

\* --------------------------------------------------------- claims C12, C13
\* The Sprint items of the call that name sprint k on either side, when the
\* table has both dates of k.
Resolvable(k) ==
    /\ k \in DOMAIN windows
    /\ windows[k].start_date # NoDate
    /\ windows[k].end_date # NoDate
EventsNaming(k) ==
    {i \in DOMAIN change_log_json :
        /\ change_log_json[i].item.kind = "Sprint"
        /\ k \in change_log_json[i].item.to \cup change_log_json[i].item.from}

\* C12: a sprint id that is not in the final association list and is named
\* by a Sprint item, on its add side or on its remove side, is in the
\* returned set exactly when some such item is dated t with
\* start <= t <= end, both bounds inclusive on both sides.
C12_WindowInclusiveBothSides ==
    ex_pc = "returned" =>
        \A k \in Range(SprintKeys) :
            (Resolvable(k) /\ k \notin sprints_json) =>
                ( k \in sprint_ids
                  <=> \E i \in EventsNaming(k) :
                        /\ windows[k].start_date <= change_log_json[i].created
                        /\ change_log_json[i].created <= windows[k].end_date )

\* C13: a sprint id of the history that is absent from the table, or whose
\* start or end date is unknown, never makes the call fail: with well-formed
\* items nothing is raised.
C13_UnresolvableSprintSkipped ==
    ex_pc = "raised" =>
        \E i \in DOMAIN change_log_json : change_log_json[i].item.kind = "no_fieldtype"

\* ------------------------------------------- get_historical_data.py
chunk_size == 100

\* One turn of "while True" (lines 101-123): the server answers with a page
\* of up to chunk_size issues and its isLast flag.
FetchPage ==
    /\ ft_pc = "loop"
    /\ requests < MaxRequests
    /\ \E batch \in 0..chunk_size, isLast \in BOOLEAN :
          /\ all_issues' = all_issues + batch
          /\ ft_pc' = IF max_fetch # 0 /\ all_issues + batch >= max_fetch
                      THEN "break"
                      ELSE IF isLast THEN "break" ELSE "loop"
    /\ requests' = requests + 1
    /\ UNCHANGED max_fetch
    /\ UNCHANGED <<simVars, fcVars, spVars, exVars, relVars>>

\* return all_issues (line 125)
ReturnIssues ==
    /\ ft_pc = "break"
    /\ ft_pc' = "returned"
    /\ UNCHANGED <<max_fetch, all_issues, requests>>
    /\ UNCHANGED <<simVars, fcVars, spVars, exVars, relVars>>

FtInit ==
    /\ SimIdle(1)
    /\ FcIdle
    /\ SpIdle
    /\ ExIdle
    /\ RelIdle
    /\ max_fetch \in 0..MaxFetch
    /\ all_issues = 0
    /\ requests = 0
    /\ ft_pc = "loop"

FtNext == FetchPage \/ ReturnIssues

SpecFetch == FtInit /\ [][FtNext]_vars

\* --------------------------------------------------------------- claim C11
\* C11: with max_fetch >= 1, fetch_jira_issues returns at most max_fetch
\* issues, whatever pages the server sends.
C11_AtMostMaxFetch ==
    (ft_pc = "returned" /\ max_fetch >= 1) => all_issues <= max_fetch

\* --------------------------------------------------------------- claim C15
\* A draw of the trial in progress is due.
DrawDue ==
    /\ sim_pc = "draw"
    /\ Len(all_forecasts) < simulations
    /\ Len(daily_forecast) < forecast_days
    /\ historical_throughput # <<>>

\* Every draw made is an element of the history, every total is a sum of
\* forecast_days such elements, and a due draw can take each element of the
\* history, whatever was drawn before.
DrawsIndependent ==
    /\ \A i \in DOMAIN daily_forecast : daily_forecast[i] \in Range(historical_throughput)
    /\ \A i \in DOMAIN all_forecasts :
          all_forecasts[i] \in TrialTotals(historical_throughput, forecast_days)
    /\ DrawDue =>
          \A i \in DOMAIN historical_throughput :
              ENABLED (Draw /\ daily_forecast' =
                                 Append(daily_forecast, historical_throughput[i]))

\* C15: each draw of a trial takes any element of the history, with
\* replacement and zeros included, so the totals of a trial are exactly the
\* sums of forecast_days elements of the history; the history is never
\* modified by the call.
C15_DrawsWithReplacement ==
    /\ []DrawsIndependent
    /\ [][historical_throughput' = historical_throughput]_vars

\* C15 at work: the largest value occurs once in the history and was drawn
\* at every draw of a finished trial of two days or more.
C15_Witness ==
    /\ forecast_days >= 2
    /\ Len(historical_throughput) >= 2
    /\ Occurrences(historical_throughput, MaxOf(Range(historical_throughput))) = 1
    /\ \E i \in DOMAIN all_forecasts :
          all_forecasts[i] = forecast_days * MaxOf(Range(historical_throughput))

\* ------------------------------------------------------ claims C6 - C10
\* The sprint whose group is being gone through, its name and its start.
CurSprint == SprintKeys[sprint_idx]
CurName == sprint_dict[CurSprint].sprint_name
CurStart == sprint_dict[CurSprint].start_date

\* The row at hand went through lines 199-247 without a KeyError, and it is
\* the first row of its issue in the group.
IssueClassified ==
    /\ sp_pc = "classified"
    /\ \A i \in 1..(Len(seen) - 1) : seen[i].ID # issue.ID

\* The history events of the row that add it to the current sprint, those
\* that remove it from it, and those of the field Sprint.
SprintEvents(row) ==
    {i \in DOMAIN row.Change_Log : row.Change_Log[i].item.kind = "Sprint"}
AddEvents(row) ==
    {i \in SprintEvents(row) :
        CurName \in NamesOf(row.Change_Log[i].item.to)
                     \ NamesOf(row.Change_Log[i].item.from)}
RemoveEvents(row) ==
    {i \in SprintEvents(row) :
        CurName \in NamesOf(row.Change_Log[i].item.from)
                     \ NamesOf(row.Change_Log[i].item.to)}

\* C6: an issue whose earliest event adding it to sprint S is dated after
\* the start of S is in the Added set of S and not in its Initial set,
\* whatever Sprint items about other sprints come before that event.
C6_LateAddIsAdded ==
    ( /\ IssueClassified
      /\ AddEvents(issue) # {}
      /\ \A i \in AddEvents(issue) : issue.Change_Log[i].created > CurStart )
    => /\ issue.ID \in added_issues
       /\ issue.ID \notin initial_issues

\* C7: an issue listed in the final association of sprint S, created
\* strictly before the start of S, with no Sprint item in its history, is in
\* the Initial set of S and not in its Added set.
C7_CreatedBeforeNoHistoryIsInitial ==
    ( /\ IssueClassified
      /\ CurSprint \in issue.Sprints_JSON
      /\ issue.Backlog < CurStart
      /\ SprintEvents(issue) = {} )
    => /\ issue.ID \in initial_issues
       /\ issue.ID \notin added_issues

\* C7 at work: such an issue, with a history of other fields, is Initial.
C7_Witness ==
    /\ IssueClassified
    /\ CurSprint \in issue.Sprints_JSON
    /\ issue.Backlog < CurStart
    /\ issue.Change_Log # <<>>
    /\ SprintEvents(issue) = {}
    /\ issue.ID \in initial_issues
    /\ issue.ID \notin added_issues

\* C8: an issue listed in the final association of sprint S whose history
\* has no event adding it to S is classified by its creation day: Initial
\* when created strictly before the start of S, Added otherwise, and never
\* left out of both sets.
C8_FallbackAlwaysApplies ==
    ( /\ IssueClassified
      /\ CurSprint \in issue.Sprints_JSON
      /\ AddEvents(issue) = {} )
    => IF issue.Backlog < CurStart
       THEN issue.ID \in initial_issues
       ELSE issue.ID \in added_issues

\* C9: an issue with an event removing it from sprint S dated on or after
\* the start of S is in the Removed set of S, wherever the event sits in the
\* history.
C9_RemovalAlwaysCounted ==
    ( /\ IssueClassified
      /\ \E i \in RemoveEvents(issue) : issue.Change_Log[i].created >= CurStart )
    => issue.ID \in removed_issues

\* C10: a history item that lacks a field neither ends the run nor keeps the
\* sprint being aggregated out of the summary: the run is never left by an
\* exception, and when it is over the last sprint gone through has its row.
C10_MalformedItemIsolated ==
    /\ sp_pc # "raised"
    /\ (sp_pc = "done" /\ sprint_idx > 0) => CurName \in Range(by_ticket_counts)

\* --------------------------------------------------------- claims C16, C17
\* The row read by the step counts for the Blocked bucket of the sprint: its
\* status category is Blocked and the sprint is in its final association.
BlockedMember(row) ==
    /\ row.Current_Status_Category = "Blocked"
    /\ CurSprint \in row.Sprints_JSON

\* C16: Blocked counts the rows of the group whose status category is
\* Blocked and whose final association list holds the sprint, and
\* Blocked_Points adds their story points, a missing estimate counting as
\* zero; a row that is in the group through its history only adds nothing.
C16_BlockedCountsCurrentMembers ==
    [][ (sp_pc = "rows" /\ sp_pc' \in {"classified", "skipped"}) =>
          /\ sprint_data'.Blocked =
                sprint_data.Blocked + (IF BlockedMember(issue') THEN 1 ELSE 0)
          /\ sprint_data'.Blocked_Points =
                sprint_data.Blocked_Points
                + (IF BlockedMember(issue')
                   THEN PointsOrZero(issue'.Story_Points) ELSE 0) ]_vars

\* C17: no issue id is in both the Initial set and the Added set of a
\* sprint, in any reachable state, also when an id has several rows in the
\* group.
C17_InitialAddedDisjoint == initial_issues \cap added_issues = {}

\* ------------------------------------------------------- claims C4 - C5
LastRow == forecast[Len(forecast)]
ZeroForecast(row) ==
    row._85_pt = 0 /\ row._70_pt = 0 /\ row.current_period_forecast = 0
OneRowPerTeam ==
    /\ Len(forecast) = Len(Teams)
    /\ \A i \in DOMAIN Teams : forecast[i].team_name = Teams[i]
TeamJustProcessed == fc_pc \in {"loop", "returned"} /\ team_idx > 1

\* C4: for every configured team, also one without throughput rows, the
\* forecast run emits exactly one row and does not raise; the three forecast
\* fields of the row of a team without throughput rows are zero.
C4_OneRowPerTeamNoRaise ==
    /\ fc_pc # "raised"
    /\ fc_pc = "returned" => OneRowPerTeam
    /\ (TeamJustProcessed /\ ~in_groups) =>
          /\ LastRow.team_name = Teams[team_idx - 1]
          /\ ZeroForecast(LastRow)

\* C5: whenever the history handed to the resampler for a team is empty, the
\* failure stays with that team: the run is not aborted, a zero row is
\* emitted for that team, and the run still returns one row per team.
C5_EmptyHistoryIsolated ==
    /\ (fc_pc # "idle" /\ in_groups /\ historical_throughput = <<>>) =>
          /\ fc_pc # "raised"
          /\ team_idx > 1
          /\ LastRow.team_name = Teams[team_idx - 1]
          /\ ZeroForecast(LastRow)
    /\ fc_pc = "returned" => OneRowPerTeam

\* ------------------------------------------------------- claims C1 - C3
Returned == sim_pc = "returned"
AllEqual(h) == \A i \in DOMAIN h : h[i] = h[1]

\* C1: for a non-empty history of non-negative integers, a horizon d >= 1 and
\* T >= 1 trials, whatever the draws, both returned percentiles lie within
\* [d * min(H), d * max(H)].
C1_PercentilesWithinRange ==
    (Returned /\ historical_throughput # <<>> /\ forecast_days >= 1) =>
        LET lo == 100 * forecast_days * MinOf(Range(historical_throughput))
            hi == 100 * forecast_days * MaxOf(Range(historical_throughput))
        IN  /\ lo <= results._70_pt /\ results._70_pt <= hi
            /\ lo <= results._85_pt /\ results._85_pt <= hi

\* C1 witness: a run over a history with min < max whose 30th percentile was
\* interpolated strictly between two order statistics.
C1_Witness ==
    /\ Returned /\ forecast_days >= 1
    /\ MinOf(Range(historical_throughput)) < MaxOf(Range(historical_throughput))
    /\ results._70_pt % 100 # 0
    /\ results._85_pt < results._70_pt

\* C2 as stated: the optimistic (85%) value is greater than or equal to the
\* conservative (70%) value.
C2_OptimisticAtLeastConservative ==
    Returned => results._85_pt >= results._70_pt

\* C2 amended: the 85% value is the 15th percentile and the 70% value the 30th
\* percentile of the same totals, so the 85% value is less than or equal to
\* the 70% value.
C2_OptimisticAtMostConservative ==
    Returned => results._85_pt <= results._70_pt

\* C2 witness: a run whose 85% value is strictly below its 70% value.
C2_Witness ==
    /\ Returned /\ historical_throughput # <<>>
    /\ simulations >= 2
    /\ results._85_pt < results._70_pt

\* C3: when every element of the history equals v, both returned values are
\* exactly d * v, for every horizon, trial count and outcome of the draws.
C3_ConstantHistoryExact ==
    (Returned /\ historical_throughput # <<>> /\ AllEqual(historical_throughput)) =>
        /\ results._70_pt = 100 * forecast_days * historical_throughput[1]
        /\ results._85_pt = 100 * forecast_days * historical_throughput[1]

\* C3 witness: a finished run over a constant non-zero history of two days,
\* several trials and a horizon of more than one day.
C3_Witness ==
    /\ Returned /\ Len(historical_throughput) = 2
    /\ AllEqual(historical_throughput) /\ historical_throughput[1] > 0
    /\ forecast_days >= 2 /\ simulations >= 2
    /\ results._70_pt = 100 * forecast_days * historical_throughput[1]

====
